---------------------------- MODULE Spec2Model ----------------------------
(***************************************************************************)
(* Model of the version tracker (src/src/main.rs).                         *)
(*                                                                         *)
(* One process invocation opens the SQLite store, reads every row of the   *)
(* targets table, and for each target fetches its URL, extracts a version, *)
(* compares it with the stored current_version and, on a change, writes a  *)
(* row to the versions table, updates the targets row and sends an e-mail. *)
(*                                                                         *)
(* Strings are sequences of atoms (an atom stands for the characters it    *)
(* spells); Option<T> is a sequence of length 0 (None) or 1 (Some).        *)
(***************************************************************************)
EXTENDS Integers, Sequences, FiniteSets, TLC

(* ------------------------------ Option<T> ------------------------------ *)

None == <<>>

Some(x) == <<x>>

IsSome(o) == Len(o) = 1

Unwrap(o) == o[1]

(* ------------------------- dates and the clock -------------------------- *)
(* A NaiveDate is a day number (days since 1970-01-01); an instant is a    *)
(* number of half days since 1970-01-01T00:00:00 UTC.                      *)

\* NaiveDate -> (year, month, day), the fields "%Y-%m-%d" prints.
CivilFromDays(z0) ==
    LET z   == z0 + 719468
        era == z \div 146097
        doe == z - era * 146097
        yoe == (doe - doe \div 1460 + doe \div 36524 - doe \div 146096) \div 365
        doy == doe - (365 * yoe + yoe \div 4 - yoe \div 100)
        mp  == (5 * doy + 2) \div 153
        d   == doy - (153 * mp + 2) \div 5 + 1
        m   == IF mp < 10 THEN mp + 3 ELSE mp - 9
        y   == yoe + era * 400 + (IF m <= 2 THEN 1 ELSE 0)
    IN  <<y, m, d>>

\* (year, month, day) -> NaiveDate.
DaysFromCivil(y0, m, d) ==
    LET y   == IF m <= 2 THEN y0 - 1 ELSE y0
        era == y \div 400
        yoe == y - era * 400
        mp  == IF m > 2 THEN m - 3 ELSE m + 9
        doy == (153 * mp + 2) \div 5 + d - 1
        doe == yoe * 365 + yoe \div 4 - yoe \div 100 + doy
    IN  era * 146097 + doe - 719468

IsLeap(y) == (y % 4 = 0 /\ y % 100 # 0) \/ y % 400 = 0

DaysInMonth(y, m) ==
    IF m = 2 THEN (IF IsLeap(y) THEN 29 ELSE 28)
    ELSE IF m \in {4, 6, 9, 11} THEN 30 ELSE 31

\* impl ToSql for MyNaiveDate: the date as the text "YYYY-MM-DD", kept as
\* its three fields.
to_sql(date) == CivilFromDays(date)

\* impl FromSql for MyNaiveDate: Some(date) when the text names a calendar
\* date, None (a FromSqlError) otherwise.
column_result(text) ==
    IF /\ text[2] \in 1..12
       /\ text[3] \in 1..DaysInMonth(text[1], text[2])
    THEN Some(DaysFromCivil(text[1], text[2], text[3]))
    ELSE None

\* Utc::now().date_naive()
date_naive(instant) == instant \div 2

\* NaiveDateTime::new(date, 00:00:00)
Midnight(date) == date * 2

\* num_days as it would be if it rounded to the nearest day.
num_daysRounded(halfdays) ==
    IF halfdays >= 0 THEN (halfdays + 1) \div 2 ELSE -((1 - halfdays) \div 2)

\* Duration::num_days: whole days, truncated toward zero.
num_days(halfdays) ==
    IF halfdays >= 0 THEN halfdays \div 2 ELSE -((-halfdays) \div 2)

(* ------------------------------ str::lines ------------------------------ *)

LF == "\n"

CR == "\r"

\* One line's text without its terminator: "\n", or "\r\n".
StripTerminator(line) ==
    IF line # <<>> /\ line[Len(line)] = LF
    THEN LET l == SubSeq(line, 1, Len(line) - 1)
         IN  IF l # <<>> /\ l[Len(l)] = CR
             THEN SubSeq(l, 1, Len(l) - 1)
             ELSE l
    ELSE line

\* Index of the first "\n" of s, 0 when there is none.
RECURSIVE FirstLF(_, _)
FirstLF(s, k) ==
    IF k > Len(s) THEN 0
    ELSE IF s[k] = LF THEN k
    ELSE FirstLF(s, k + 1)

\* response.lines(): split after every "\n"; a final piece without one is
\* a line when it is not empty.
RECURSIVE lines(_)
lines(s) ==
    IF s = <<>> THEN <<>>
    ELSE LET k == FirstLF(s, 1)
         IN  IF k = 0 THEN <<s>>
             ELSE <<StripTerminator(SubSeq(s, 1, k))>>
                    \o lines(SubSeq(s, k + 1, Len(s)))

\* nth as it would be if the index counted lines from 1.
nthFromOne(seq, n) == IF 1 <= n /\ n <= Len(seq) THEN Some(seq[n]) ELSE None

\* Iterator::nth
nth(seq, n) == IF n + 1 <= Len(seq) THEN Some(seq[n + 1]) ELSE None

(* --------------------------- str::parse::<usize> ------------------------ *)

Digits == {"0", "1", "2", "3", "7"}

DigitValue(c) ==
    CASE c = "0" -> 0 [] c = "1" -> 1 [] c = "2" -> 2 [] c = "3" -> 3
      [] c = "7" -> 7

RECURSIVE DecimalValue(_)
DecimalValue(s) ==
    IF s = <<>> THEN 0
    ELSE 10 * DecimalValue(SubSeq(s, 1, Len(s) - 1)) + DigitValue(s[Len(s)])

\* line_number.parse::<usize>(): an optional "+", then one or more digits.
parse_usize(s) ==
    LET digits == IF s # <<>> /\ s[1] = "+" THEN Tail(s) ELSE s
    IN  IF digits # <<>> /\ \A k \in 1..Len(digits) : digits[k] \in Digits
        THEN Some(DecimalValue(digits))
        ELSE None

(* --------------------------- serde_json::from_str ----------------------- *)

QUOTE == "\""

Whitespace == {" ", LF, CR}

NumberAtoms == {"7", "1.0", ".0"}

Dots(a) == IF a = "7" THEN 0 ELSE 1

RECURSIVE SkipWs(_)
SkipWs(s) ==
    IF s # <<>> /\ s[1] \in Whitespace THEN SkipWs(Tail(s)) ELSE s

\* Index of the closing quote of the string that opens at s[1], 0 when the
\* string is not closed or holds a control character.
RECURSIVE ClosingQuote(_, _)
ClosingQuote(s, k) ==
    IF k > Len(s) THEN 0
    ELSE IF s[k] = QUOTE THEN k
    ELSE IF s[k] \in {LF, CR} THEN 0
    ELSE ClosingQuote(s, k + 1)

\* Length of the run of number atoms s starts with.
RECURSIVE NumberRun(_)
NumberRun(s) ==
    IF s # <<>> /\ s[1] \in NumberAtoms THEN 1 + NumberRun(Tail(s)) ELSE 0

RECURSIVE DotCount(_)
DotCount(s) == IF s = <<>> THEN 0 ELSE Dots(s[1]) + DotCount(Tail(s))

JsonErr == [ok |-> FALSE]

\* One JSON value at the head of s: [ok, val, rest].
RECURSIVE ParseValue(_)
ParseValue(s0) ==
    LET s == SkipWs(s0)
    IN  IF s = <<>> THEN JsonErr
        ELSE IF s[1] = QUOTE THEN
            LET k == ClosingQuote(s, 2)
            IN  IF k = 0 THEN JsonErr
                ELSE [ok |-> TRUE,
                      val |-> [k |-> "string", s |-> SubSeq(s, 2, k - 1)],
                      rest |-> SubSeq(s, k + 1, Len(s))]
        ELSE IF s[1] \in NumberAtoms THEN
            LET n == NumberRun(s)
                text == SubSeq(s, 1, n)
            IN  IF s[1] = ".0" \/ DotCount(text) > 1 THEN JsonErr
                ELSE [ok |-> TRUE,
                      val |-> [k |-> "number", s |-> text],
                      rest |-> SubSeq(s, n + 1, Len(s))]
        ELSE IF s[1] = "null" THEN
            [ok |-> TRUE, val |-> [k |-> "null"], rest |-> Tail(s)]
        ELSE IF s[1] = "{" THEN
            LET a == SkipWs(Tail(s))
            IN  IF a = <<>> THEN JsonErr
                ELSE IF a[1] = "}" THEN
                    [ok |-> TRUE,
                     val |-> [k |-> "object", members |-> <<>>],
                     rest |-> Tail(a)]
                ELSE IF a[1] # QUOTE THEN JsonErr
                ELSE
                    LET k == ClosingQuote(a, 2)
                        b == SkipWs(SubSeq(a, k + 1, Len(a)))
                    IN  IF k = 0 \/ b = <<>> \/ b[1] # ":" THEN JsonErr
                        ELSE
                            LET v == ParseValue(Tail(b))
                                c == IF v.ok THEN SkipWs(v.rest) ELSE <<>>
                            IN  IF ~v.ok \/ c = <<>> \/ c[1] # "}" THEN JsonErr
                                ELSE [ok |-> TRUE,
                                      val |-> [k |-> "object",
                                               members |-> <<[key |-> SubSeq(a, 2, k - 1),
                                                              val |-> v.val]>>],
                                      rest |-> Tail(c)]
        ELSE JsonErr

\* serde_json::from_str::<Value>: Some(document), or None (a
\* serde_json::Error) when the text is no document or text follows it.
from_str(s) ==
    LET v == ParseValue(s)
    IN  IF v.ok /\ SkipWs(v.rest) = <<>> THEN Some(v.val) ELSE None

(* --------------------------- jsonpath::selector ------------------------- *)

KeyAtoms == {"v", "w"}

\* The path's keys, Some(<<k1, ..>>) for "$", "$.k1", "$.k1.k2", ...; None
\* (a JsonPathError) for a text that is no such path.
RECURSIVE PathKeys(_)
PathKeys(p) ==
    IF p = <<>> THEN Some(<<>>)
    ELSE IF Len(p) >= 2 /\ p[1] = "." /\ p[2] \in KeyAtoms THEN
        LET more == PathKeys(SubSeq(p, 3, Len(p)))
        IN  IF IsSome(more) THEN Some(<<p[2]>> \o Unwrap(more)) ELSE None
    ELSE None

compile(path) ==
    IF path # <<>> /\ path[1] = "$" THEN PathKeys(Tail(path)) ELSE None

\* The members of node named key, in document order.
Children(node, key) ==
    IF node.k = "object"
    THEN LET hits == SelectSeq(node.members, LAMBDA m : m.key = <<key>>)
         IN  [j \in 1..Len(hits) |-> hits[j].val]
    ELSE <<>>

RECURSIVE Step(_, _)
Step(nodes, key) ==
    IF nodes = <<>> THEN <<>>
    ELSE Children(nodes[1], key) \o Step(Tail(nodes), key)

RECURSIVE Walk(_, _)
Walk(nodes, keys) ==
    IF keys = <<>> THEN nodes ELSE Walk(Step(nodes, keys[1]), Tail(keys))

\* selector(path): Some(matched nodes), or None (a JsonPathError).
selector(json, path) ==
    LET keys == compile(path)
    IN  IF IsSome(keys) THEN Some(Walk(<<json>>, Unwrap(keys))) ELSE None

\* Value::as_str
as_str(value) == IF value.k = "string" THEN Some(value.s) ELSE None


(* ------------------------- Target::fetch_version ------------------------ *)

Ok(value) == [tag |-> "Ok", value |-> value]

Err(error) == [tag |-> "Err", error |-> error]

Panic == [tag |-> "Panic"]

\* The "json" arm as it would be if a query without a match gave an empty
\* version instead of an error.
ExtractJsonEmptyOnNoMatch(jsonpath, response) ==
    LET json == from_str(response)
    IN  IF ~IsSome(json) THEN Err("JsonError")
        ELSE LET found == selector(Unwrap(json), jsonpath)
             IN  IF ~IsSome(found) THEN Err("JsonPathError")
                 ELSE IF Unwrap(found) # <<>>
                      THEN LET version == as_str(Unwrap(found)[1])
                           IN  IF IsSome(version)
                               THEN Ok(Some(Unwrap(version)))
                               ELSE Panic
                      ELSE Ok(Some(<<>>))

\* The "json" arm: parse the body, run the query, take the first match.
ExtractJson(jsonpath, response) ==
    LET json == from_str(response)
    IN  IF ~IsSome(json) THEN Err("JsonError")
        ELSE LET found == selector(Unwrap(json), jsonpath)
             IN  IF ~IsSome(found) THEN Err("JsonPathError")
                 ELSE IF Unwrap(found) # <<>>
                      THEN LET version == as_str(Unwrap(found)[1])
                           IN  IF IsSome(version)
                               THEN Ok(Some(Unwrap(version)))
                               ELSE Panic  \* Option::unwrap on None
                      ELSE Err("VersionNotFound")

\* The "text" arm: the line at the 0-based index the rule names.
ExtractText(line_number, response) ==
    LET line_index == parse_usize(line_number)
    IN  IF IsSome(line_index)
        THEN LET line == nth(lines(response), Unwrap(line_index))
             IN  IF IsSome(line) THEN Ok(Some(Unwrap(line)))
                 ELSE Err("VersionNotFound")
        ELSE Err("InvalidLineNumber")

\* fetch_version as it would be if a target without a rule, or of a type
\* it does not know, were an error instead of Ok(None).
fetch_versionRuleRequired(self, transport) ==
    IF ~IsSome(transport) THEN Err("ReqwestError")
    ELSE IF ~IsSome(self.jsonpath_line) THEN Err("VersionNotFound")
    ELSE IF self.target_type = "json"
         THEN ExtractJson(Unwrap(self.jsonpath_line), Unwrap(transport))
    ELSE IF self.target_type = "text"
         THEN ExtractText(Unwrap(self.jsonpath_line), Unwrap(transport))
    ELSE Err("VersionNotFound")

\* fetch_version on the transport's answer: None when the GET or the read
\* of its body failed, Some(body text) otherwise.
fetch_version(self, transport) ==
    IF ~IsSome(transport) THEN Err("ReqwestError")
    ELSE IF self.target_type = "json" /\ IsSome(self.jsonpath_line)
         THEN ExtractJson(Unwrap(self.jsonpath_line), Unwrap(transport))
    ELSE IF self.target_type = "text" /\ IsSome(self.jsonpath_line)
         THEN ExtractText(Unwrap(self.jsonpath_line), Unwrap(transport))
    ELSE Ok(None)

(* ------------------------------- bounds --------------------------------- *)

\* Rows of the targets table.
NumTargets == 2

\* Process invocations.
MaxRuns == 2

\* Half days the clock may advance.
MaxClock == 1

(* ------------------------ inputs of the model --------------------------- *)

TargetIds == 1..NumTargets

V10 == <<"1.0">>

V100 == <<"1.0", ".0">>

JsonPathV == <<"$", ".", "v">>

ObservedV10 == <<Some(V10), Some(to_sql(DaysFromCivil(2024, 1, 1)))>>

NeverObserved == <<None, None>>

\* The rows a targets table may hold when the tracker is first run:
\* (type, jsonpath_line, (current_version, released)). A row was either
\* never observed or records a version with the date it was seen.
InitialRows ==
    { <<"json", Some(JsonPathV), NeverObserved>>,
      <<"json", Some(JsonPathV), ObservedV10>>,
      <<"text", Some(<<"0">>),   NeverObserved>>,
      <<"text", Some(<<"0">>),   ObservedV10>>,
      <<"text", Some(<<"a">>),   ObservedV10>>,
      <<"json", None,            ObservedV10>>,
      <<"text", None,            NeverObserved>>,
      <<"xml",  Some(<<"0">>),   ObservedV10>> }

\* Response bodies the transport may return: two texts, two documents that
\* open with an empty line, and the empty body.
Bodies ==
    { <<"1.0">>,
      <<"1.0", ".0", LF, "7">>,
      <<LF, "{", QUOTE, "v", QUOTE, ":", QUOTE, "1.0", ".0", QUOTE, "}">>,
      <<LF, "{", QUOTE, "v", QUOTE, ":", "7", "}">>,
      <<>> }

\* 2024-01-11, 12:00.
StartInstant == Midnight(DaysFromCivil(2024, 1, 11)) + 1

Instants == StartInstant..(StartInstant + MaxClock)

EnvVars == {"SQLITE_DB_PATH", "SMTP_USERNAME", "SMTP_PASSWORD", "RECIPIENT_EMAIL"}

Environments ==
    {EnvVars, EnvVars \ {"SQLITE_DB_PATH"}, EnvVars \ {"RECIPIENT_EMAIL"}}


(* ------------------------------- state ---------------------------------- *)

VARIABLES
    db_targets,         \* the targets table: id -> row
    db_versions,        \* the versions table, in insertion order
    now,                \* the instant the clock last showed
    runs,               \* process invocations so far
    pc,                 \* where the process stands
    exit,               \* how the last process ended
    env,                \* the process's environment variables
    targets,            \* main: the Vec<Target> select_all returned
    i,                  \* main: position of the for loop in targets
    new_version,        \* main: the extracted version
    days_since_release, \* main: Some(days) once computed
    today,              \* update: the date it stamps
    log                 \* what the process did to its collaborators, in order

vars == <<db_targets, db_versions, now, runs, pc, exit, env, targets, i,
          new_version, days_since_release, today, log>>

store == <<db_targets, db_versions>>

locals == <<targets, i, new_version, days_since_release, today>>

Running == {"fetch", "update_insert", "update_set", "send_email"}

\* struct Target, as select_all builds it from a row.
Target(id, row) ==
    [id |-> Some(id),
     name |-> row.name,
     target_type |-> row.type,
     url |-> row.url,
     jsonpath_line |-> row.jsonpath_line,
     current_version |-> row.current_version,
     released |-> IF IsSome(row.released)
                  THEN column_result(Unwrap(row.released))
                  ELSE None]

\* A row of the targets table.
Row(id, r) ==
    [name |-> <<"target", id>>,
     type |-> r[1],
     url |-> <<"url", id>>,
     jsonpath_line |-> r[2],
     current_version |-> r[3][1],
     released |-> r[3][2]]

Init ==
    /\ db_targets \in
         { [id \in TargetIds |-> Row(id, r[id])] : r \in [TargetIds -> InitialRows] }
    /\ db_versions = <<>>
    /\ now = StartInstant
    /\ runs = 0
    /\ pc = "idle"
    /\ exit = [kind |-> "none"]
    /\ env = {}
    /\ targets = <<>>
    /\ i = 0
    /\ new_version = None
    /\ days_since_release = None
    /\ today = None
    /\ log = <<>>

\* The process ends: with Ok(()), with an Err returned from main, with a
\* panic, or killed from outside. Its memory is gone.
Exit(how) ==
    /\ pc' = "exited"
    /\ exit' = how
    /\ env' = {}
    /\ targets' = <<>>
    /\ i' = 0
    /\ new_version' = None
    /\ days_since_release' = None
    /\ today' = None

\* The for loop moves to the next target, or main returns Ok(()).
NextTarget ==
    IF i < Len(targets)
    THEN /\ pc' = "fetch"
         /\ i' = i + 1
         /\ new_version' = None
         /\ days_since_release' = None
         /\ today' = None
         /\ UNCHANGED <<exit, env, targets>>
    ELSE Exit([kind |-> "ok"])

(* ------------------------------ main: start ----------------------------- *)

\* SQLITE_DB_PATH is not set: env::var(..).expect panics.
StartNoDbPath ==
    /\ pc \in {"idle", "exited"}
    /\ runs < MaxRuns
    /\ runs' = runs + 1
    /\ \E e \in Environments : "SQLITE_DB_PATH" \notin e
    /\ log' = <<>>
    /\ Exit([kind |-> "panic"])
    /\ UNCHANGED <<store, now>>

\* Connection::open or select_all fails: main returns the SqlError.
StartStoreFails ==
    /\ pc \in {"idle", "exited"}
    /\ runs < MaxRuns
    /\ runs' = runs + 1
    /\ \E e \in Environments : "SQLITE_DB_PATH" \in e
    /\ log' = <<>>
    /\ Exit([kind |-> "err", error |-> "SqlError"])
    /\ UNCHANGED <<store, now>>

\* The store opens and select_all returns every row, in rowid order.
Start ==
    /\ pc \in {"idle", "exited"}
    /\ runs < MaxRuns
    /\ runs' = runs + 1
    /\ log' = <<>>
    /\ \E e \in Environments :
         LET loaded == [k \in 1..NumTargets |-> Target(k, db_targets[k])]
             unreadable == \E k \in 1..NumTargets :
                               /\ IsSome(db_targets[k].released)
                               /\ ~IsSome(loaded[k].released)
         IN  /\ "SQLITE_DB_PATH" \in e
             /\ IF unreadable
                THEN Exit([kind |-> "err", error |-> "SqlError"])
                ELSE /\ env' = e
                     /\ targets' = loaded
                     /\ i' = 1
                     /\ pc' = "fetch"
                     /\ UNCHANGED <<exit, new_version, days_since_release, today>>
    /\ UNCHANGED <<store, now>>

(* ------------------------ main: fetch and compare ----------------------- *)

\* The log's entry for a call of fetch_version: the target as main holds it
\* and what the call returned.
Fetched(self, r) ==
    [op |-> "fetch_version", id |-> Unwrap(self.id), self |-> self, result |-> r]

\* The log's entry for a line main prints.
Printed(self, text) == [op |-> "println", id |-> Unwrap(self.id), text |-> text]

\* What the transport may answer: a failure, or a body.
Transports == {None} \cup {Some(b) : b \in Bodies}

\* A version without the ".0" atoms it ends with.
RECURSIVE Trimmed(_)
Trimmed(version) ==
    IF version # <<>> /\ version[Len(version)] = ".0"
    THEN Trimmed(SubSeq(version, 1, Len(version) - 1))
    ELSE version

\* The comparison as it would be if versions were compared as numbers, so
\* that "1.0" and "1.0.0" were the same release.
DiffersAsRelease(version, current_version) ==
    Trimmed(version \o <<".0">>) # Trimmed(current_version \o <<".0">>)

\* The comparison as it would be if every extracted version counted as new.
DiffersAlways(version, current_version) == TRUE

\* new_version != *current_version
Differs(version, current_version) == version # current_version

\* Whole days from midnight of the stored release date to the instant.
DaysSince(released_date, instant) == num_days(instant - Midnight(released_date))

\* The fetch or the extraction returns an error: `?` returns it from main.
FetchVersionErr ==
    /\ pc = "fetch"
    /\ \E transport \in Transports :
         LET self == targets[i]
             r == fetch_version(self, transport)
         IN  /\ r.tag = "Err"
             /\ log' = Append(log, Fetched(self, r))
             /\ Exit([kind |-> "err", error |-> r.error])
    /\ UNCHANGED <<store, now, runs>>

\* The first match of the query is no string: unwrap panics.
FetchVersionPanic ==
    /\ pc = "fetch"
    /\ \E transport \in Transports :
         LET self == targets[i]
             r == fetch_version(self, transport)
         IN  /\ r.tag = "Panic"
             /\ log' = Append(log, Fetched(self, r))
             /\ Exit([kind |-> "panic"])
    /\ UNCHANGED <<store, now, runs>>

\* fetch_version returns Ok(None).
NoVersionFound ==
    /\ pc = "fetch"
    /\ \E transport \in Transports :
         LET self == targets[i]
             r == fetch_version(self, transport)
         IN  /\ r.tag = "Ok"
             /\ ~IsSome(r.value)
             /\ log' = log \o <<Fetched(self, r),
                               Printed(self, <<"No new version found for target: ",
                                               self.name>>)>>
             /\ NextTarget
    /\ UNCHANGED <<store, now, runs>>

\* The extracted version equals the stored one.
Unchanged ==
    /\ pc = "fetch"
    /\ \E transport \in Transports :
         LET self == targets[i]
             r == fetch_version(self, transport)
         IN  /\ r.tag = "Ok"
             /\ IsSome(r.value)
             /\ IsSome(self.current_version)
             /\ ~Differs(Unwrap(r.value), Unwrap(self.current_version))
             /\ log' = log \o <<Fetched(self, r),
                               Printed(self, <<"Target: ", self.name,
                                               " version is unchanged: ",
                                               Unwrap(self.current_version)>>)>>
             /\ NextTarget
    /\ UNCHANGED <<store, now, runs>>

\* The extracted version differs from the stored one: the days since the
\* last release are computed and update is called.
NewVersion ==
    /\ pc = "fetch"
    /\ \E transport \in Transports, instant \in Instants :
         LET self == targets[i]
             r == fetch_version(self, transport)
         IN  /\ r.tag = "Ok"
             /\ IsSome(r.value)
             /\ IsSome(self.current_version)
             /\ Differs(Unwrap(r.value), Unwrap(self.current_version))
             /\ IF IsSome(self.released)
                THEN /\ instant >= now
                     /\ now' = instant
                     /\ days_since_release' =
                          Some(DaysSince(Unwrap(self.released), instant))
                ELSE /\ instant = now
                     /\ now' = now
                     /\ days_since_release' = Some(0)
             /\ new_version' = r.value
             /\ log' = Append(log, Fetched(self, r))
    /\ pc' = "update_insert"
    /\ UNCHANGED <<store, runs, exit, env, targets, i, today>>

\* There is no stored version: update is called.
FirstObservation ==
    /\ pc = "fetch"
    /\ \E transport \in Transports :
         LET self == targets[i]
             r == fetch_version(self, transport)
         IN  /\ r.tag = "Ok"
             /\ IsSome(r.value)
             /\ ~IsSome(self.current_version)
             /\ new_version' = r.value
             /\ log' = Append(log, Fetched(self, r))
    /\ pc' = "update_insert"
    /\ UNCHANGED <<store, now, runs, exit, env, targets, i,
                   days_since_release, today>>


(* ----------------------------- Target::update --------------------------- *)

\* The record as it would be if update wrote the new state where the old
\* one belongs.
HistoryRecordOfNewState(self, date, version) ==
    [target_id |-> Unwrap(self.id),
     version |-> Some(version),
     released |-> Some(to_sql(date)),
     updated |-> to_sql(date),
     updated_version |-> version]

\* The row the INSERT adds to the versions table.
HistoryRecord(self, date, version) ==
    [target_id |-> Unwrap(self.id),
     version |-> self.current_version,
     released |-> IF IsSome(self.released)
                  THEN Some(to_sql(Unwrap(self.released)))
                  ELSE None,
     updated |-> to_sql(date),
     updated_version |-> version]

\* The INSERT as it would be if the versions table kept one row per target
\* (INSERT OR REPLACE on target_id).
InsertOrReplaceVersion(table, record) ==
    Append(SelectSeq(table, LAMBDA r : r.target_id # record.target_id), record)

\* INSERT INTO versions
InsertVersion(table, record) == Append(table, record)

\* The UPDATE as it would be if it set current_version and left released.
UpdateTargetVersionOnly(table, id, version, date) ==
    [r \in DOMAIN table |->
        IF r = id
        THEN [table[r] EXCEPT !.current_version = Some(version)]
        ELSE table[r]]

\* The UPDATE as it would be if it set released and left current_version.
UpdateTargetDateOnly(table, id, version, date) ==
    [r \in DOMAIN table |->
        IF r = id
        THEN [table[r] EXCEPT !.released = Some(to_sql(date))]
        ELSE table[r]]

\* The UPDATE as it would be if it stored the version without the ".0" it
\* ends with.
UpdateTargetNormalised(table, id, version, date) ==
    [r \in DOMAIN table |->
        IF r = id
        THEN [table[r] EXCEPT !.current_version = Some(Trimmed(version)),
                              !.released = Some(to_sql(date))]
        ELSE table[r]]

\* The UPDATE as it would be without its WHERE clause.
UpdateTargetAll(table, id, version, date) ==
    [r \in DOMAIN table |->
        [table[r] EXCEPT !.current_version = Some(version),
                         !.released = Some(to_sql(date))]]

\* UPDATE targets SET current_version = ?1, released = ?2 WHERE id = ?3
UpdateTarget(table, id, version, date) ==
    [r \in DOMAIN table |->
        IF r = id
        THEN [table[r] EXCEPT !.current_version = Some(version),
                              !.released = Some(to_sql(date))]
        ELSE table[r]]

\* update reads the date and the INSERT succeeds.
UpdateInsert ==
    /\ pc = "update_insert"
    /\ IsSome(targets[i].id)
    /\ \E instant \in Instants :
         /\ instant >= now
         /\ now' = instant
         /\ today' = Some(date_naive(instant))
         /\ db_versions' =
              InsertVersion(db_versions,
                            HistoryRecord(targets[i], date_naive(instant),
                                          Unwrap(new_version)))
    /\ log' = Append(log, [op |-> "INSERT", id |-> Unwrap(targets[i].id)])
    /\ pc' = "update_set"
    /\ UNCHANGED <<db_targets, runs, exit, env, targets, i, new_version,
                   days_since_release>>

\* The INSERT fails, or the target has no id: update returns the error and
\* `?` returns it from main.
UpdateInsertErr ==
    /\ pc = "update_insert"
    /\ \E instant \in Instants :
         /\ instant >= now
         /\ now' = IF IsSome(targets[i].id) THEN instant ELSE now
    /\ Exit([kind |-> "err",
             error |-> IF IsSome(targets[i].id) THEN "SqlError"
                       ELSE "UnexpectedError"])
    /\ UNCHANGED <<store, runs, log>>

\* The UPDATE succeeds and update returns Ok(()).
UpdateSet ==
    /\ pc = "update_set"
    /\ db_targets' = UpdateTarget(db_targets, Unwrap(targets[i].id),
                                  Unwrap(new_version), Unwrap(today))
    /\ log' = Append(log, [op |-> "UPDATE", id |-> Unwrap(targets[i].id)])
    /\ pc' = "send_email"
    /\ UNCHANGED <<db_versions, now, runs, exit, env, targets, i, new_version,
                   days_since_release, today>>

\* The UPDATE fails: update returns the error and `?` returns it from main.
UpdateSetErr ==
    /\ pc = "update_set"
    /\ Exit([kind |-> "err", error |-> "SqlError"])
    /\ UNCHANGED <<store, now, runs, log>>

(* ------------------------------- send_email ----------------------------- *)

Subject(self) == <<"New version for target: ", self.name>>

\* The body main formats: four lines when there was a stored version, two
\* when there was none.
Body(self, version, days) ==
    IF IsSome(self.current_version)
    THEN << <<"Target: ", self.name>>,
            <<"Old Version: ", Unwrap(self.current_version)>>,
            <<"New Version: ", version>>,
            <<"Days Since Last Release: ", Unwrap(days)>> >>
    ELSE << <<"Target: ", self.name>>,
            <<"New Version: ", version>> >>

\* The log's entry for a message handed to the relay, and whether the relay
\* took it.
Mailed(self, version, days, result) ==
    [op |-> "send_email", id |-> Unwrap(self.id), version |-> version,
     subject |-> Subject(self), body |-> Body(self, version, days),
     result |-> result]

SmtpVars == {"SMTP_USERNAME", "SMTP_PASSWORD", "RECIPIENT_EMAIL"}

\* The message is delivered; main prints the update and goes on.
SendEmail ==
    /\ pc = "send_email"
    /\ SmtpVars \subseteq env
    /\ LET self == targets[i]
       IN  log' = log \o
             <<Mailed(self, Unwrap(new_version), days_since_release, "Ok"),
               Printed(self, <<"Updated target: ", self.name, " to version: ",
                               Unwrap(new_version)>>)>>
    /\ NextTarget
    /\ UNCHANGED <<store, now, runs>>

\* A mail variable is not set: env::var(..).expect panics.
SendEmailPanic ==
    /\ pc = "send_email"
    /\ ~(SmtpVars \subseteq env)
    /\ Exit([kind |-> "panic"])
    /\ UNCHANGED <<store, now, runs, log>>

\* The relay refuses or cannot be reached: main maps the error to
\* UnexpectedError and `?` returns it.
SendEmailErr ==
    /\ pc = "send_email"
    /\ SmtpVars \subseteq env
    /\ log' = Append(log, Mailed(targets[i], Unwrap(new_version),
                                 days_since_release, "Err"))
    /\ Exit([kind |-> "err", error |-> "UnexpectedError"])
    /\ UNCHANGED <<store, now, runs>>

(* ------------------------------ the process ----------------------------- *)

\* The process is stopped from outside (a signal, a power cut).
Kill ==
    /\ pc \in Running
    /\ Exit([kind |-> "killed"])
    /\ UNCHANGED <<store, now, runs, log>>

Next ==
    \/ StartNoDbPath
    \/ StartStoreFails
    \/ Start
    \/ FetchVersionErr
    \/ FetchVersionPanic
    \/ NoVersionFound
    \/ Unchanged
    \/ NewVersion
    \/ FirstObservation
    \/ UpdateInsert
    \/ UpdateInsertErr
    \/ UpdateSet
    \/ UpdateSetErr
    \/ SendEmail
    \/ SendEmailPanic
    \/ SendEmailErr
    \/ Kill

Spec == Init /\ [][Next]_vars


(* ------------------------- reading the state ---------------------------- *)

\* The versions rows of target t, oldest first.
RecordsOf(t) == SelectSeq(db_versions, LAMBDA r : r.target_id = t)

Last(seq) == seq[Len(seq)]

\* The positions of the log that hold a call of op.
Calls(op) == {k \in 1..Len(log) : log[k].op = op}

\* The calls the process made for target t after its fetch, in order.
EffectsOn(t) ==
    LET on == SelectSeq(log, LAMBDA e : e.id = t /\ e.op # "fetch_version")
    IN  [k \in 1..Len(on) |-> on[k].op]

\* Every target of the table was fetched by this process.
AllFetched == \A t \in TargetIds : \E k \in Calls("fetch_version") : log[k].id = t

\* The process got past select_all and ended with an Err returned from main.
EndedInTargetError == pc = "exited" /\ exit.kind = "err" /\ log # <<>>

(* -------------------------------- C1 ------------------------------------ *)

\* The last history record of t describes a transition the targets row
\* does not show: the row still holds the version and date the record
\* saved as the old ones.
HalfWritten(t) ==
    /\ RecordsOf(t) # <<>>
    /\ db_targets[t].current_version = Last(RecordsOf(t)).version
    /\ db_targets[t].released = Last(RecordsOf(t)).released

\* C1: update is atomic: whenever the process has ended (an error of a
\* store statement and a stop between the two statements included), no
\* target has its history record written and its targets row not updated.
C1_UpdateIsAtomic == pc = "exited" => \A t \in TargetIds : ~HalfWritten(t)

(* -------------------------------- C2 ------------------------------------ *)

\* C2: an error local to one target aborts only that target: when a run
\* hit such an error, every target of the batch was still fetched.
C2_ErrorAbortsOnlyItsTarget == EndedInTargetError => AllFetched

(* -------------------------------- C3 ------------------------------------ *)

\* The relay refused the message of the last target the process handled.
NotifierFailed ==
    /\ pc = "exited"
    /\ log # <<>>
    /\ Last(log).op = "send_email"
    /\ Last(log).result = "Err"

\* The store holds the transition the message of e reports.
Persisted(e) ==
    /\ RecordsOf(e.id) # <<>>
    /\ Last(RecordsOf(e.id)).updated_version = e.version
    /\ db_targets[e.id].current_version = Some(e.version)
    /\ db_targets[e.id].released = Some(Last(RecordsOf(e.id)).updated)

\* C3: when the notifier fails after a change was persisted, the history
\* record and the updated row stay in the store, and the failure is an
\* error of that target only: the other targets are still processed.
C3_NotifierFailureIsLocal ==
    NotifierFailed => Persisted(Last(log)) /\ AllFetched

\* The part of C3 the code keeps: a failed notification rolls nothing back.
C3_NotRolledBack == NotifierFailed => Persisted(Last(log))


(* -------------------------------- C4 ------------------------------------ *)

\* The target the for loop stands at, while the process runs.
Current == targets[i]

CurrentId == Unwrap(targets[i].id)

\* The log's entry for the fetch of the step the process takes.
FetchOfStep == log'[Len(log) + 1]

\* An extraction returned a version.
Extracted(e) == e.result.tag = "Ok" /\ IsSome(e.result.value)

\* Between the statements of update the record is written and the row is
\* not; after update the row holds the extracted version.
C4_Order ==
    /\ pc \in {"update_insert", "update_set", "send_email"} =>
          new_version # Current.current_version
    /\ pc = "update_set" =>
          /\ EffectsOn(CurrentId) = <<"INSERT">>
          /\ Last(db_versions).target_id = CurrentId
          /\ Last(db_versions).updated_version = Unwrap(new_version)
          /\ db_targets[CurrentId].current_version = Current.current_version
    /\ pc = "send_email" =>
          /\ EffectsOn(CurrentId) = <<"INSERT", "UPDATE">>
          /\ db_targets[CurrentId].current_version = new_version

\* A differing extraction calls update; update adds one record, then
\* changes the row; nothing else writes to the store.
C4_Step ==
    /\ (pc = "fetch" /\ Len(log') > Len(log) /\ Extracted(FetchOfStep)) =>
          (FetchOfStep.result.value # FetchOfStep.self.current_version
             <=> pc' = "update_insert")
    /\ (pc = "update_insert" /\ pc' = "update_set") =>
          /\ Len(db_versions') = Len(db_versions) + 1
          /\ SubSeq(db_versions', 1, Len(db_versions)) = db_versions
          /\ db_targets' = db_targets
    /\ db_versions' # db_versions => pc = "update_insert" /\ pc' = "update_set"
    /\ db_targets' # db_targets => pc = "update_set" /\ pc' = "send_email"

\* C4: for a target whose extraction differs from its stored version,
\* update writes exactly one history record, writes it before it changes
\* the targets row, and leaves the row's current_version equal to the
\* extracted value.
C4_ChangeWritesOneRecordThenRow == []C4_Order /\ [][C4_Step]_vars

\* A stored version was replaced: the record is written and the row updated.
C4_Witness ==
    /\ pc = "send_email"
    /\ IsSome(Current.current_version)
    /\ EffectsOn(CurrentId) = <<"INSERT", "UPDATE">>
    /\ db_targets[CurrentId].current_version = new_version

(* -------------------------------- C5 ------------------------------------ *)

\* The targets row of e.id is as main read it.
RowAsRead(e) ==
    /\ db_targets[e.id].current_version = e.self.current_version
    /\ e.self.released =
         IF IsSome(db_targets[e.id].released)
         THEN column_result(Unwrap(db_targets[e.id].released))
         ELSE None

\* The extraction of e returned the stored version, string for string.
SameVersion(e) ==
    /\ Extracted(e)
    /\ IsSome(e.self.current_version)
    /\ Unwrap(e.result.value) = Unwrap(e.self.current_version)

\* The extraction of e returned another string than the stored version.
OtherVersion(e) ==
    /\ Extracted(e)
    /\ IsSome(e.self.current_version)
    /\ Unwrap(e.result.value) # Unwrap(e.self.current_version)

\* In a run, a target found unchanged gets its status line and nothing
\* else, and its row stays; a target found changed goes to update.
C5_Run ==
    \A k \in Calls("fetch_version") :
       /\ SameVersion(log[k]) =>
             /\ EffectsOn(log[k].id) = <<"println">>
             /\ RowAsRead(log[k])
       /\ OtherVersion(log[k]) =>
             IF EffectsOn(log[k].id) = <<>>
             THEN pc = "update_insert" \/ (pc = "exited" /\ exit.kind # "ok")
             ELSE EffectsOn(log[k].id)[1] = "INSERT"

\* The step that finds a target unchanged leaves the store alone.
C5_Step ==
    (pc = "fetch" /\ Len(log') > Len(log) /\ SameVersion(FetchOfStep)) =>
        /\ db_versions' = db_versions
        /\ db_targets' = db_targets
        /\ pc' # "update_insert"

\* C5: a target whose extraction is string-equal to its current_version
\* gets no history record, no change of its row and no notification; any
\* other string is a change.
C5_EqualStringIsUnchanged == []C5_Run /\ [][C5_Step]_vars

\* A run ended well in which a target was found unchanged and another
\* went from "1.0" to "1.0.0".
C5_Witness ==
    /\ pc = "exited"
    /\ exit.kind = "ok"
    /\ \E k \in Calls("fetch_version") : SameVersion(log[k])
    /\ \E k \in Calls("fetch_version") :
          /\ log[k].self.current_version = Some(V10)
          /\ log[k].result.tag = "Ok"
          /\ log[k].result.value = Some(V100)
          /\ EffectsOn(log[k].id) = <<"INSERT", "UPDATE", "send_email", "println">>

(* -------------------------------- C6 ------------------------------------ *)

\* update returned Ok for a target that had no stored version.
FirstObservationPersisted == pc = "send_email" /\ ~IsSome(Current.current_version)

\* The history of a first observation: one record, with no old version
\* and no old date, that names the extracted version.
C6_History ==
    FirstObservationPersisted =>
        /\ EffectsOn(CurrentId) = <<"INSERT", "UPDATE">>
        /\ Last(RecordsOf(CurrentId)).version = None
        /\ Last(RecordsOf(CurrentId)).released = None
        /\ Last(RecordsOf(CurrentId)).updated_version = Unwrap(new_version)

\* C6: a target with no current_version and an extracted v is a change, its
\* days since release are computed as 0, and exactly one history record is
\* written, with version and released absent and updated_version v.
C6_FirstObservationIsChange ==
    /\ C6_History
    /\ FirstObservationPersisted => days_since_release = Some(0)


(* -------------------------------- C7 ------------------------------------ *)

\* C7: in every targets row, current_version and released are both present
\* or both absent, whatever failed in the runs so far.
C7_VersionAndReleasedTogether ==
    \A t \in TargetIds :
        IsSome(db_targets[t].current_version) <=> IsSome(db_targets[t].released)

\* A second run was stopped by an error after a first run had filled a row
\* that started with neither a version nor a date.
C7_Witness ==
    /\ runs = MaxRuns
    /\ pc = "exited"
    /\ exit.kind = "err"
    /\ \E t \in TargetIds :
          /\ RecordsOf(t) # <<>>
          /\ RecordsOf(t)[1].version = None
          /\ IsSome(db_targets[t].current_version)
          /\ IsSome(db_targets[t].released)

(* -------------------------------- C8 ------------------------------------ *)

\* C8: the history record of a change holds the row's version and date as
\* they were before the update, the date of the run as updated and the
\* extracted value as updated_version; the row's released becomes that
\* same date.
C8_RecordCapturesOldState ==
    /\ pc = "update_set" =>
          /\ Last(db_versions).target_id = CurrentId
          /\ Last(db_versions).version = db_targets[CurrentId].current_version
          /\ Last(db_versions).released = db_targets[CurrentId].released
          /\ Last(db_versions).updated = CivilFromDays(date_naive(now))
          /\ Last(db_versions).updated_version = Unwrap(new_version)
    /\ pc = "send_email" =>
          /\ Last(db_versions).target_id = CurrentId
          /\ Last(db_versions).updated = CivilFromDays(Unwrap(today))
          /\ db_targets[CurrentId].released = Some(Last(db_versions).updated)
          /\ db_targets[CurrentId].current_version =
               Some(Last(db_versions).updated_version)

\* The record of a change that replaced a stored version on a later day
\* than the one the process started on.
C8_Witness ==
    /\ pc = "send_email"
    /\ Last(db_versions).version = Some(V10)
    /\ Last(db_versions).released = Some(<<2024, 1, 1>>)
    /\ Last(db_versions).updated = <<2024, 1, 12>>
    /\ Last(db_versions).updated_version = V100
    /\ db_targets[CurrentId].released = Some(<<2024, 1, 12>>)

(* -------------------------------- C9 ------------------------------------ *)

\* C9: the version history only grows: every step keeps the records there
\* are, with their fields, and only the INSERT of update, called for a
\* change, adds one.
C9_HistoryIsAppendOnly ==
    [][/\ Len(db_versions') >= Len(db_versions)
       /\ SubSeq(db_versions', 1, Len(db_versions)) = db_versions
       /\ db_versions' # db_versions =>
             /\ pc = "update_insert"
             /\ Len(db_versions') = Len(db_versions) + 1
             /\ Last(db_versions').target_id = CurrentId
             /\ Some(Last(db_versions').updated_version) # Last(db_versions').version
             /\ Last(db_versions').version = Current.current_version]_vars

\* A target has two records, written by two runs.
C9_Witness ==
    \E t \in TargetIds :
        /\ Len(RecordsOf(t)) = 2
        /\ Len(db_versions) >= 3

(* -------------------------------- C10 ----------------------------------- *)

\* The target has no rule, or a type that is neither "json" nor "text".
NoExtractor(self) ==
    ~IsSome(self.jsonpath_line) \/ self.target_type \notin {"json", "text"}

\* C10: a target with no rule or an unknown type whose fetch succeeds gets
\* None for every body; it ends with the line "No new version found", no
\* error, no history record, no change of its row, no notification, and
\* the batch goes on.
C10_NoExtractorIsNoVersionFound ==
    \A k \in Calls("fetch_version") :
       (NoExtractor(log[k].self) /\ log[k].result # Err("ReqwestError")) =>
          /\ log[k].result = Ok(None)
          /\ \A b \in Bodies : fetch_version(log[k].self, Some(b)) = Ok(None)
          /\ log[k + 1].op = "println"
          /\ log[k + 1].text =
               <<"No new version found for target: ", log[k].self.name>>
          /\ EffectsOn(log[k].id) = <<"println">>
          /\ RowAsRead(log[k])
          /\ Len(log) = k + 1 =>
                \/ pc = "fetch" /\ CurrentId # log[k].id
                \/ pc = "exited" /\ exit.kind = "killed"
                \/ pc = "exited" /\ exit.kind = "ok" /\ AllFetched

\* A run ended well after a target without a rule, a target of an unknown
\* type, or both, were skipped and a later target was still fetched.
C10_Witness ==
    /\ pc = "exited"
    /\ exit.kind = "ok"
    /\ Cardinality(Calls("fetch_version")) = NumTargets
    /\ NoExtractor(log[1].self)
    /\ log[1].self.target_type = "xml"
    /\ \E k \in Calls("fetch_version") : ~IsSome(log[k].self.jsonpath_line)

(* -------------------------------- C11 ----------------------------------- *)

\* The running process lacks a variable it needs.
ConfigMissing == pc \in Running /\ ~(EnvVars \subseteq env)

\* C11: a missing configuration value is fatal before any target is
\* processed: a process that lacks one has fetched no target, written no
\* history record and updated no targets row.
C11_MissingConfigIsFatalAtStartup ==
    ConfigMissing =>
        /\ Calls("fetch_version") = {}
        /\ Calls("INSERT") = {}
        /\ Calls("UPDATE") = {}

(* ------------------- fetch_version on its own inputs -------------------- *)
(* One call of fetch_version, for a wider choice of rules and response     *)
(* bodies than the runs above draw, with the response kept beside the      *)
(* result.                                                                 *)

\* Atoms of a text body.
MaxBody == 4

TextAtoms == {"1.0", " ", LF, CR}

TextBodies == UNION {[1..n -> TextAtoms] : n \in 0..MaxBody}

\* "a\nb\nc\nd\ne"
FiveLines == <<"a", LF, "b", LF, "c", LF, "d", LF, "e">>

TextRules ==
    { <<"0">>, <<"1">>, <<"2">>, <<"3">>, <<"1", "0">>, <<"0", "1">>,
      <<"+", "1">>, <<"-", "1">>, <<" ", "1">>, <<"1", " ">>, <<"a">>,
      <<"a", "b", "c">>, <<"+">>, <<>> }

\* JSON values, as trees.
JString(text) == [k |-> "string", s |-> text]

JNumber(text) == [k |-> "number", s |-> text]

JNull == [k |-> "null"]

JEmpty == [k |-> "object", members |-> <<>>]

JObject(key, val) == [k |-> "object", members |-> <<[key |-> <<key>>, val |-> val]>>]

\* Well-formed documents, by their values.
JsonValues ==
    { JString(<<"1.0">>), JString(<<>>), JNumber(<<"7">>), JNumber(<<"1.0">>),
      JNull, JEmpty,
      JObject("v", JString(<<"1.0", ".0">>)), JObject("w", JString(<<"1.0">>)),
      JObject("v", JNumber(<<"7">>)), JObject("v", JNull), JObject("v", JEmpty),
      JObject("v", JObject("w", JString(<<"1.0">>))),
      JObject("w", JObject("v", JString(<<"1.0">>))) }

\* The text of a value.
RECURSIVE Written(_)
Written(val) ==
    CASE val.k = "string" -> <<QUOTE>> \o val.s \o <<QUOTE>>
      [] val.k = "number" -> val.s
      [] val.k = "null" -> <<"null">>
      [] val.k = "object" ->
           IF val.members = <<>> THEN <<"{", " ", "}">>
           ELSE <<"{", QUOTE>> \o val.members[1].key \o <<QUOTE, ":", " ">>
                  \o Written(val.members[1].val) \o <<"}", LF>>

\* Documents written by hand, one of them cut short.
JsonDocuments ==
    { <<"{", QUOTE, "v", QUOTE, ":", QUOTE, "1.0", QUOTE, "}">>,
      <<"{", QUOTE, "w", QUOTE, ":", QUOTE, "1.0", QUOTE, "}">>,
      <<"{", "}">>,
      <<"{", QUOTE, "v", QUOTE, ":", "7", "}">>,
      <<"{", QUOTE, "v", QUOTE, ":", "{", "}", "}">>,
      <<"{", QUOTE, "v", QUOTE, ":", "null", "}">>,
      <<"{", QUOTE, "v", QUOTE, ":", QUOTE, QUOTE, "}">>,
      <<"{", QUOTE, "v", QUOTE, ":",
             "{", QUOTE, "w", QUOTE, ":", QUOTE, "1.0", QUOTE, "}", "}">>,
      <<QUOTE, "1.0", QUOTE>>,
      <<"7">>,
      <<"null">>,
      <<"{", QUOTE, "v", QUOTE, ":">> }

JsonPaths ==
    { <<"$">>, <<"$", ".", "v">>, <<"$", ".", "w">>,
      <<"$", ".", "v", ".", "w">>, <<"v">> }

\* The rows whose extraction is looked at: every text rule, every path,
\* a row without a rule and a row of another type.
ExtractionRows ==
    {<<"text", Some(r), NeverObserved>> : r \in TextRules}
      \cup {<<"json", Some(q), NeverObserved>> : q \in JsonPaths}
      \cup {<<"text", None, NeverObserved>>, <<"xml", Some(<<"0">>), NeverObserved>>}

Responses ==
    {None}
      \cup {Some(b) : b \in TextBodies \cup {FiveLines} \cup JsonDocuments}
      \cup {Some(Written(val)) : val \in JsonValues}

\* The log's entry for a call of fetch_version with the response it read.
Responded(self, transport, r) ==
    [op |-> "fetch_version", id |-> Unwrap(self.id), self |-> self,
     response |-> transport, result |-> r]

\* main has loaded the table and stands at its first target.
InitExtract ==
    /\ \E r \in ExtractionRows : db_targets = [id \in TargetIds |-> Row(id, r)]
    /\ db_versions = <<>>
    /\ now = StartInstant
    /\ runs = 1
    /\ pc = "fetch"
    /\ exit = [kind |-> "none"]
    /\ env = EnvVars
    /\ targets = [k \in 1..NumTargets |-> Target(k, db_targets[k])]
    /\ i = 1
    /\ new_version = None
    /\ days_since_release = None
    /\ today = None
    /\ log = <<>>

\* fetch_version is called for the target and returns.
FetchVersionCall ==
    /\ pc = "fetch"
    /\ \E transport \in Responses :
         log' = Append(log, Responded(targets[i], transport,
                                      fetch_version(targets[i], transport)))
    /\ pc' = "fetched"
    /\ UNCHANGED <<store, now, runs, exit, env, locals>>

NextExtract == FetchVersionCall

SpecExtract == InitExtract /\ [][NextExtract]_vars

(* -------------------------------- C12 ----------------------------------- *)

\* The positions of the line feeds of body b.
LineBreaks(b) == {k \in 1..Len(b) : b[k] = LF}

\* The lines of b: one for each line feed, and one for what follows the
\* last line feed when that is not empty.
LineCount(b) ==
    Cardinality(LineBreaks(b))
      + (IF b # <<>> /\ b[Len(b)] # LF THEN 1 ELSE 0)

\* The position of the n-th line feed of b (n from 1).
NthBreak(b, n) ==
    CHOOSE k \in LineBreaks(b) : Cardinality({j \in LineBreaks(b) : j <= k}) = n

\* Line n of b (n from 0, n < LineCount(b)): what stands between the line
\* feed before it and its terminator, "\n" or "\r\n".
LineAt(b, n) ==
    LET first == IF n = 0 THEN 1 ELSE NthBreak(b, n) + 1
        closed == Cardinality(LineBreaks(b)) > n
        stop == IF closed THEN NthBreak(b, n + 1) - 1 ELSE Len(b)
        last == IF closed /\ stop >= first /\ b[stop] = CR THEN stop - 1 ELSE stop
    IN  SubSeq(b, first, last)

\* The rule is a decimal numeral, with or without a leading "+".
IsNumeral(r) ==
    LET d == IF r # <<>> /\ r[1] = "+" THEN SubSeq(r, 2, Len(r)) ELSE r
    IN  d # <<>> /\ \A k \in 1..Len(d) : d[k] \in Digits

RECURSIVE NumeralFrom(_, _)
NumeralFrom(d, acc) ==
    IF d = <<>> THEN acc ELSE NumeralFrom(Tail(d), 10 * acc + DigitValue(d[1]))

NumeralValue(r) ==
    NumeralFrom(IF r[1] = "+" THEN Tail(r) ELSE r, 0)

\* A call for a "text" target with a rule got a response.
PositionalCall(e) ==
    /\ e.self.target_type = "text"
    /\ IsSome(e.self.jsonpath_line)
    /\ IsSome(e.response)

\* C12: positional extraction, for every body of n lines and every rule: a
\* rule that parses as a non-negative integer below n returns that line
\* (counted from 0) as it stands, untrimmed; one that parses as an integer n
\* or above fails with VersionNotFound; one that does not parse fails with
\* InvalidLineNumber.
C12_PositionalExtraction ==
    \A k \in Calls("fetch_version") :
        PositionalCall(log[k]) =>
            LET rule == Unwrap(log[k].self.jsonpath_line)
                body == Unwrap(log[k].response)
            IN  IF ~IsNumeral(rule)
                THEN log[k].result = Err("InvalidLineNumber")
                ELSE IF NumeralValue(rule) < LineCount(body)
                THEN log[k].result = Ok(Some(LineAt(body, NumeralValue(rule))))
                ELSE log[k].result = Err("VersionNotFound")

\* Rule "2" on the five-line body returned "c".
C12_Witness ==
    /\ pc = "fetched"
    /\ PositionalCall(log[1])
    /\ log[1].self.jsonpath_line = Some(<<"2">>)
    /\ log[1].response = Some(FiveLines)
    /\ log[1].result = Ok(Some(<<"c">>))

\* Rule "1" returned a line with the blanks around its text.
C12_WitnessUntrimmed ==
    /\ pc = "fetched"
    /\ log[1].self.jsonpath_line = Some(<<"1">>)
    /\ log[1].response = Some(<<LF, " ", "1.0", " ">>)
    /\ log[1].result = Ok(Some(<<" ", "1.0", " ">>))

(* -------------------------------- C13 ----------------------------------- *)

\* The text of the path that names the keys one after another.
RECURSIVE PathText(_)
PathText(keys) ==
    IF keys = <<>> THEN <<"$">>
    ELSE PathText(SubSeq(keys, 1, Len(keys) - 1)) \o <<".", keys[Len(keys)]>>

KeyPaths == {<<>>, <<"v">>, <<"w">>, <<"v", "w">>, <<"w", "v">>}

\* What the keys lead to in val: Some(node), or None when a key is missing
\* or names a member of something that is no object.
RECURSIVE Lookup(_, _)
Lookup(val, keys) ==
    IF keys = <<>> THEN Some(val)
    ELSE IF val.k = "object" /\ val.members # <<>>
              /\ val.members[1].key = <<keys[1]>>
         THEN Lookup(val.members[1].val, Tail(keys))
         ELSE None

\* A "json" target with the path of keys as its rule.
JsonTarget(keys) == Target(1, Row(1, <<"json", Some(PathText(keys)), ObservedV10>>))

\* Every query that matches nothing in a well-formed document ends in
\* VersionNotFound.
C13_NoMatchIsVersionNotFound ==
    \A val \in JsonValues, keys \in KeyPaths :
        ~IsSome(Lookup(val, keys)) =>
            fetch_version(JsonTarget(keys), Some(Written(val)))
              = Err("VersionNotFound")

\* The fetch of e was a structured extraction that ended in VersionNotFound.
NoMatch(e) ==
    /\ e.self.target_type = "json"
    /\ IsSome(e.self.jsonpath_line)
    /\ e.result = Err("VersionNotFound")

\* C13: a structured extraction whose query matches no node of a
\* well-formed document fails with VersionNotFound and returns no version,
\* the empty string included; the target then gets no history record, no
\* change of its row and no notification.
C13_NoMatchWritesNothing ==
    /\ C13_NoMatchIsVersionNotFound
    /\ \A k \in Calls("fetch_version") :
          NoMatch(log[k]) =>
             /\ EffectsOn(log[k].id) = <<>>
             /\ RowAsRead(log[k])
             /\ pc = "exited"
             /\ exit = [kind |-> "err", error |-> "VersionNotFound"]
             /\ k = Len(log)

\* The query "$.v" matched nothing in the document 1.0 and the run ended
\* with VersionNotFound, the store as it was.
C13_Witness ==
    /\ pc = "exited"
    /\ log # <<>>
    /\ NoMatch(Last(log))
    /\ Last(log).result = fetch_version(Last(log).self, Some(<<"1.0">>))
    /\ ~IsSome(Lookup(JNumber(<<"1.0">>), <<"v">>))
    /\ db_versions = <<>>

(* -------------------------------- C14 ----------------------------------- *)

\* The call of e ran the query of keys on the document of val, and the
\* first match is no string.
MatchedNonString(e, val, keys) ==
    /\ e.self.target_type = "json"
    /\ e.self.jsonpath_line = Some(PathText(keys))
    /\ e.response = Some(Written(val))
    /\ IsSome(Lookup(val, keys))
    /\ Unwrap(Lookup(val, keys)).k # "string"

\* C14: a structured extraction whose first match is no string (a number,
\* an object, null) returns an error for that target: never a version, the
\* empty string included, and never anything but a returned error value.
C14_NonStringMatchIsError ==
    \A k \in Calls("fetch_version") :
        \A val \in JsonValues, keys \in KeyPaths :
            MatchedNonString(log[k], val, keys) => log[k].result.tag = "Err"

(* -------------------------------- C15 ----------------------------------- *)

\* The log's entry for the fetch of target t in this run.
FetchOf(t) == log[CHOOSE k \in Calls("fetch_version") : log[k].id = t]

\* The body has a line that gives value under label.
Gives(body, label, value) == \E j \in 1..Len(body) : body[j] = <<label, value>>

\* The body has a line under label.
HasLine(body, label) == \E j \in 1..Len(body) : body[j][1] = label

\* The message of e names its target in the subject and gives the target,
\* the new version, the days since the last release (0 when there was no
\* stored version) and, when there was one, the old version.
FullReport(e) ==
    LET was == FetchOf(e.id).self
    IN  /\ e.subject[2] = was.name
        /\ Gives(e.body, "Target: ", was.name)
        /\ Gives(e.body, "New Version: ", Unwrap(FetchOf(e.id).result.value))
        /\ HasLine(e.body, "Days Since Last Release: ")
        /\ ~IsSome(was.current_version) =>
              Gives(e.body, "Days Since Last Release: ", 0)
        /\ IF IsSome(was.current_version)
           THEN Gives(e.body, "Old Version: ", Unwrap(was.current_version))
           ELSE ~HasLine(e.body, "Old Version: ")

\* C15: on every changed transition, a first observation included, the
\* notifier is called with a subject that names the target and a body that
\* holds the target name, the new version and the days since the last
\* release (0 on a first observation), with the old version when there is
\* one.
C15_NotificationContent ==
    \A k \in Calls("send_email") : FullReport(log[k])

\* The part of C15 the code keeps: the message of a change that replaced a
\* stored version is complete.
C15_ReplacementContent ==
    \A k \in Calls("send_email") :
        IsSome(FetchOf(log[k].id).self.current_version) => FullReport(log[k])

(* ------------------- the days since the last release -------------------- *)
(* main at a target whose stored version differs from the extracted one,   *)
(* for a wider choice of stored dates than the runs above start from. A    *)
(* row the tracker wrote carries a version and a date; a row entered by    *)
(* hand may carry a version and no date.                                   *)

ReleaseDates ==
    { <<2020, 2, 29>>, <<2023, 1, 11>>, <<2023, 3, 1>>, <<2023, 12, 31>>,
      <<2024, 1, 1>>, <<2024, 1, 10>>, <<2024, 1, 11>>, <<2024, 1, 12>>,
      <<2024, 1, 13>> }

DayRows ==
    {<<"text", Some(<<"0">>), <<Some(v), Some(d)>>>> :
        v \in {V10, V100}, d \in ReleaseDates}
      \cup {<<"text", Some(<<"0">>), <<Some(v), None>>>> : v \in {V10, V100}}
      \cup {<<"json", Some(JsonPathV), <<Some(V10), Some(d)>>>> : d \in ReleaseDates}

\* main has loaded the table and stands at its first target; the clock
\* shows midnight or noon of 2024-01-11.
InitDays ==
    /\ \E r \in DayRows : db_targets = [id \in TargetIds |-> Row(id, r)]
    /\ db_versions = <<>>
    /\ now \in {StartInstant - 1, StartInstant}
    /\ runs = 1
    /\ pc = "fetch"
    /\ exit = [kind |-> "none"]
    /\ env = EnvVars
    /\ targets = [k \in 1..NumTargets |-> Target(k, db_targets[k])]
    /\ i = 1
    /\ new_version = None
    /\ days_since_release = None
    /\ today = None
    /\ log = <<>>

NextDays == NewVersion

SpecDays == InitDays /\ [][NextDays]_vars

(* -------------------------------- C16 ----------------------------------- *)

\* Days from 1970-01-01 to the first day of year y.
RECURSIVE DaysBeforeYear(_)
DaysBeforeYear(y) ==
    IF y <= 1970 THEN 0
    ELSE DaysBeforeYear(y - 1) + (IF IsLeap(y - 1) THEN 366 ELSE 365)

\* Days from the first day of year y to the first day of its month m.
RECURSIVE DaysBeforeMonth(_, _)
DaysBeforeMonth(y, m) ==
    IF m <= 1 THEN 0 ELSE DaysBeforeMonth(y, m - 1) + DaysInMonth(y, m - 1)

\* Half days from 1970-01-01 00:00 to 00:00 of the stored date.
MidnightOf(text) ==
    2 * (DaysBeforeYear(text[1]) + DaysBeforeMonth(text[1], text[2]) + text[3] - 1)

\* d is the number of whole days in a span of so many half days.
WholeDays(d, halfdays) ==
    IF halfdays >= 0
    THEN d >= 0 /\ 2 * d <= halfdays /\ halfdays < 2 * d + 2
    ELSE d <= 0 /\ 2 * d >= halfdays /\ halfdays > 2 * d - 2

\* main found a change of a stored version and computed the days.
DaysComputed ==
    /\ pc = "update_insert"
    /\ IsSome(db_targets[CurrentId].current_version)

\* C16: for a changed target with a stored version, the days since the last
\* release are the whole days from midnight of the stored released date to
\* the instant of the run (released 2024-01-01, run on 2024-01-11: 10), and
\* 0 when no released date is stored.
C16_DaysSinceRelease ==
    DaysComputed =>
        /\ IsSome(days_since_release)
        /\ IF IsSome(db_targets[CurrentId].released)
           THEN WholeDays(Unwrap(days_since_release),
                          now - MidnightOf(Unwrap(db_targets[CurrentId].released)))
           ELSE Unwrap(days_since_release) = 0
        /\ (/\ db_targets[CurrentId].released = Some(<<2024, 1, 1>>)
            /\ now \in {MidnightOf(<<2024, 1, 11>>), MidnightOf(<<2024, 1, 11>>) + 1})
              => Unwrap(days_since_release) = 10

\* Released 2024-01-01, run at noon of 2024-01-11: 10 days.
C16_Witness ==
    /\ DaysComputed
    /\ db_targets[CurrentId].released = Some(<<2024, 1, 1>>)
    /\ now = MidnightOf(<<2024, 1, 11>>) + 1
    /\ days_since_release = Some(10)

\* A stored version without a released date: 0 days.
C16_WitnessNoDate ==
    /\ DaysComputed
    /\ ~IsSome(db_targets[CurrentId].released)
    /\ days_since_release = Some(0)

(* -------------------------------- C17 ----------------------------------- *)

\* The extraction of e is a change: a version, and not the stored one.
Changed(e) == Extracted(e) /\ e.result.value # e.self.current_version

\* The message at position k of the log follows, call for call, the fetch
\* of a change of its target, the INSERT and the UPDATE.
AfterPersist(k) ==
    /\ k >= 4
    /\ log[k - 3].op = "fetch_version"
    /\ log[k - 3].id = log[k].id
    /\ Changed(log[k - 3])
    /\ log[k - 2] = [op |-> "INSERT", id |-> log[k].id]
    /\ log[k - 1] = [op |-> "UPDATE", id |-> log[k].id]

\* C17: in a run, a notification is sent for a target only after its
\* persist step completed: none for a target whose fetch, extraction or
\* update failed or whose version is unchanged, and at most one for a
\* target.
C17_NotifyOnlyAfterPersist ==
    /\ \A k \in Calls("send_email") :
          /\ AfterPersist(k)
          /\ Persisted(log[k])
          /\ \A j \in Calls("send_email") : log[j].id = log[k].id => j = k
    /\ \A k \in Calls("fetch_version") :
          ~Changed(log[k]) =>
              \A j \in Calls("send_email") : log[j].id # log[k].id
    /\ pc = "send_email" => EffectsOn(CurrentId) = <<"INSERT", "UPDATE">>
    /\ (pc = "exited" /\ exit.kind = "err" /\ exit.error = "SqlError") =>
          \A j \in Calls("send_email") :
              \E k \in Calls("fetch_version") : k > j

\* A run ended well in which one target was found unchanged and the other
\* was notified after its INSERT and UPDATE.
C17_Witness ==
    /\ pc = "exited"
    /\ exit.kind = "ok"
    /\ Cardinality(Calls("send_email")) = 1
    /\ \E k \in Calls("fetch_version") : SameVersion(log[k])
    /\ \E k \in Calls("send_email") : AfterPersist(k) /\ log[k].result = "Ok"

(* -------------------------------- C18 ----------------------------------- *)

\* The rows of target t in a versions table.
RecordsIn(table, t) == SelectSeq(table, LAMBDA r : r.target_id = t)

\* What a store <<targets table, versions table>> holds of target t.
StateOf(st, t) == <<st[1][t], RecordsIn(st[2], t)>>

\* The store after update of self to version on date ran both statements.
AfterUpdate(st, self, version, date) ==
    <<UpdateTarget(st[1], Unwrap(self.id), version, date),
      InsertVersion(st[2], HistoryRecord(self, date, version))>>

\* The persist step of the target at hand and the persist step of any other
\* target of the batch leave every target with the same rows whichever of
\* the two runs first.
C18_Commute ==
    pc = "update_insert" =>
        \A u \in TargetIds \ {CurrentId}, v \in {V10, V100},
           d \in {date_naive(now), date_naive(now) + 1} :
            LET mine == date_naive(now)
                one == AfterUpdate(AfterUpdate(store, Current, Unwrap(new_version), mine),
                                   targets[u], v, d)
                other == AfterUpdate(AfterUpdate(store, targets[u], v, d),
                                     Current, Unwrap(new_version), mine)
            IN  \A t \in TargetIds : StateOf(one, t) = StateOf(other, t)

\* The INSERT adds a record of the target at hand and nothing else; the
\* UPDATE changes the version and date of its row and nothing else; no
\* other step writes.
C18_Step ==
    /\ db_versions' # db_versions =>
          /\ pc = "update_insert"
          /\ Last(db_versions').target_id = CurrentId
          /\ RecordsIn(db_versions', CurrentId)
               = Append(RecordsIn(db_versions, CurrentId), Last(db_versions'))
          /\ \A u \in TargetIds \ {CurrentId} :
                RecordsIn(db_versions', u) = RecordsIn(db_versions, u)
          /\ db_targets' = db_targets
    /\ db_targets' # db_targets =>
          /\ pc = "update_set"
          /\ \A u \in TargetIds \ {CurrentId} : db_targets'[u] = db_targets[u]
          /\ db_targets'[CurrentId] =
               [db_targets[CurrentId] EXCEPT
                   !.current_version = db_targets'[CurrentId].current_version,
                   !.released = db_targets'[CurrentId].released]
          /\ db_versions' = db_versions

NextStoreOk ==
    \/ StartNoDbPath
    \/ Start
    \/ FetchVersionErr
    \/ FetchVersionPanic
    \/ NoVersionFound
    \/ Unchanged
    \/ NewVersion
    \/ FirstObservation
    \/ UpdateInsert
    \/ UpdateSet
    \/ SendEmail
    \/ SendEmailPanic
    \/ SendEmailErr

SpecStoreOk == Init /\ [][NextStoreOk]_vars

(* -------------------------------- C19 ----------------------------------- *)

\* The records of t lead, one to the next, to the row of t: the newest
\* names the row's version, and every later record starts from the version
\* and date the record before it ended with.
ChainOf(t) ==
    LET recs == RecordsOf(t)
    IN  recs # <<>> =>
           /\ Some(Last(recs).updated_version) = db_targets[t].current_version
           /\ Some(Last(recs).updated) = db_targets[t].released
           /\ \A j \in 2..Len(recs) :
                 /\ recs[j].version = Some(recs[j - 1].updated_version)
                 /\ recs[j].released = Some(recs[j - 1].updated)

\* C19: from an empty history, after any sequence of complete runs in which
\* fetch, extraction and notification may fail and store statements do not,
\* the newest record of every target that has one names the target's
\* current_version, and every later record's version and released are the
\* updated_version and updated date of the record before it.
C19_HistoryLeadsToRow ==
    pc # "update_set" => \A t \in TargetIds : ChainOf(t)

\* After two runs a target has two records, the second starting where the
\* first ended, and its row holds the second's version.
C19_Witness ==
    /\ pc = "exited"
    /\ runs = 2
    /\ \E t \in TargetIds :
          /\ Len(RecordsOf(t)) = 2
          /\ RecordsOf(t)[2].version = Some(RecordsOf(t)[1].updated_version)
          /\ RecordsOf(t)[1].updated_version # RecordsOf(t)[2].updated_version
          /\ db_targets[t].current_version = Some(RecordsOf(t)[2].updated_version)

(* -------------------------------- C20 ----------------------------------- *)

\* Target t as a following run will read it from the table.
Reloaded(t) == Target(t, db_targets[t])

\* update ran both statements for target t in this run.
PersistedInRun(t) == \E k \in Calls("UPDATE") : log[k].id = t

\* What this run persisted is what the next one will compare with: the row
\* holds the extracted version, and the target as read again extracts from
\* every body what it extracted in this run, so the body of this run gives
\* the stored version again.
C20_NextRunSeesSameVersion ==
    \A t \in TargetIds :
        PersistedInRun(t) =>
            /\ Reloaded(t).current_version = FetchOf(t).result.value
            /\ \A b \in Bodies :
                  /\ fetch_version(Reloaded(t), Some(b))
                       = fetch_version(FetchOf(t).self, Some(b))
                  /\ fetch_version(FetchOf(t).self, Some(b)) = FetchOf(t).result =>
                        ~Differs(Unwrap(fetch_version(Reloaded(t), Some(b)).value),
                                 Unwrap(Reloaded(t).current_version))

\* The fetch of this step extracts the version an earlier run persisted
\* for the target: the newest record names it and the row holds it.
RefetchOfPersisted ==
    /\ pc = "fetch"
    /\ Len(log') > Len(log)
    /\ Extracted(FetchOfStep)
    /\ RecordsOf(CurrentId) # <<>>
    /\ Last(RecordsOf(CurrentId)).updated_version = Unwrap(FetchOfStep.result.value)
    /\ db_targets[CurrentId].current_version = FetchOfStep.result.value

\* Such a fetch finds the target unchanged: the status line is printed and
\* nothing is written or sent.
C20_Step ==
    RefetchOfPersisted =>
        /\ db_versions' = db_versions
        /\ db_targets' = db_targets
        /\ pc' # "update_insert"
        /\ Len(log') = Len(log) + 2
        /\ log'[Len(log) + 2] =
             Printed(Current, <<"Target: ", Current.name, " version is unchanged: ",
                                Unwrap(FetchOfStep.result.value)>>)

\* C20: change detection is idempotent across runs: after a run that
\* persisted a target's change, a following run that fetches the same body
\* finds the target unchanged, writes no history record, leaves the row and
\* sends no notification, also when the first run's notification failed.
C20_RefetchIsUnchanged == []C20_NextRunSeesSameVersion /\ [][C20_Step]_vars

\* The first run persisted target 1 and ended because the relay refused the
\* message; the second run fetched the same version for target 1, printed
\* that it is unchanged and went on to target 2, the history as it was.
C20_Witness ==
    /\ runs = 2
    /\ exit = [kind |-> "err", error |-> "UnexpectedError"]
    /\ pc = "fetch"
    /\ i = 2
    /\ Len(db_versions) = 1
    /\ db_versions[1].target_id = 1
    /\ SameVersion(log[1])
    /\ log[1].result.value = Some(db_versions[1].updated_version)
    /\ EffectsOn(1) = <<"println">>

=============================================================================
